---- MODULE Spec2Model ----
(***************************************************************************)
(* The gameplay loop of src/main.rs (a Bevy "Asteroids" game): one frame   *)
(* is First (clock, input, event buffers) -> PreUpdate -> Update (systems  *)
(* in any order the schedule permits, commands deferred to the end of the  *)
(* schedule) -> PostUpdate (lifetimes, physics step).                      *)
(*                                                                         *)
(* Time is counted in quarter seconds.  Angles are counted in eighths of   *)
(* a turn.  Entities are numbered; entity 0 is the ship.                   *)
(***************************************************************************)
EXTENDS Integers, Sequences, FiniteSets, TLC

VARIABLES
    stage,          \* position in the frame: "first", "pre", "update", "post"
    ran,            \* systems of the current schedule that have already run
    delta,          \* Time::delta() of the current frame
    keys,           \* Input<KeyCode>: the set of pressed keys
    cursor,         \* Window::cursor_position(), mapped to the world; None outside
    mouse,          \* translation of the Mouse entity
    shipRot,        \* rotation of the ship's Transform
    inputEvents,    \* Events<InputAction> not yet read by update_weapons
    fireTimer,      \* FireTimer of the ship: elapsed time, finished iff = FireInterval
    laserEvents,    \* Events<SpawnLaserEvent>: [origin (rotation), at (translation), age]
    asteroidEvents, \* Events<SpawnAsteroidEvent> not yet read by asteroid_spawner
    collisions,     \* Events<Collision> not yet read by handle_collisions
    ast,            \* live asteroids: entity -> [class, health]
    lasers,         \* live laser bolts: entity -> [origin, life]
    cmds,           \* deferred Commands of the current schedule
    nextId,         \* next fresh entity id
    ships,          \* live entities with the Ship component
    pos,            \* Transform.translation of the bodies whose place is followed
    obs             \* observations of the run, read by the properties only

vars == <<stage, ran, delta, keys, cursor, mouse, shipRot, inputEvents, fireTimer,
          laserEvents, asteroidEvents, collisions, ast, lasers, cmds, nextId, ships,
          pos, obs>>

(***************************************************************************)
(* Bounds of the model.                                                    *)
(***************************************************************************)
MaxDelta == 2        \* frame deltas of the weapon runs are 1..MaxDelta quarter seconds
MaxIntents == 2      \* intents queued for update_weapons in one frame
MaxShots == 6        \* lasers fired in one run of the world
MaxLasers == 2       \* laser bolts alive at once in the world
MaxCollisions == 2   \* collision events reported by one physics step
MaxTargets == 2      \* asteroids (lowest ids) the physics step reports on
MaxRand == 1         \* random draws are 0..MaxRand
MaxOver == 2         \* bodies drift at most this far past an edge of the play field

(***************************************************************************)
(* Program constants.                                                      *)
(***************************************************************************)
FireInterval == 2        \* Duration::from_secs_f32(60.0 / 120.0), in quarter seconds
LifetimeDuration == 20   \* Duration::from_secs(5), in quarter seconds
HalfWidth == 640         \* the x the wrapper compares with
HalfHeight == 360        \* the y the wrapper compares with
ShipId == 0
None == "none"

Min(a, b) == IF a < b THEN a ELSE b

(***************************************************************************)
(* bevy Timer (TimerMode::Once) as the systems use it.                     *)
(***************************************************************************)
TimerFinished(t, duration) == t >= duration

\* Timer::tick: a finished Once timer stays put; otherwise elapsed advances
\* and is clamped to the duration.
TimerTick(t, d, duration) ==
    IF TimerFinished(t, duration) THEN t ELSE Min(duration, t + d)

\* Timer::reset
TimerReset == 0

(***************************************************************************)
(* Input.                                                                  *)
(***************************************************************************)
KeyCodes == {"A", "Left", "D", "Right", "W", "Up", "S", "Down", "Space"}

AnyPressed(ks) == keys \cap ks # {}

\* Faulty, for comparison: left wins over right.
HorizontalLeftWins ==
    IF AnyPressed({"A", "Left"}) THEN -1 ELSE IF AnyPressed({"D", "Right"}) THEN 1 ELSE 0

Horizontal ==
    LET left == AnyPressed({"A", "Left"})
        right == AnyPressed({"D", "Right"})
    IN  CASE left /\ right -> 0
          [] left /\ ~right -> -1
          [] ~left /\ right -> 1
          [] OTHER -> 0

Vertical ==
    LET up == AnyPressed({"W", "Up"})
        down == AnyPressed({"S", "Down"})
    IN  CASE up /\ down -> 0
          [] up /\ ~down -> 1
          [] ~up /\ down -> -1
          [] OTHER -> 0

MoveEvent(h, v) == [kind |-> "Move", x |-> h, y |-> v]
FireEvent == [kind |-> "Fire", x |-> 0, y |-> 0]

\* The intents proto_input sends this frame, in order.
ProtoInputEvents ==
    (IF Horizontal # 0 \/ Vertical # 0 THEN <<MoveEvent(Horizontal, Vertical)>> ELSE <<>>)
    \o (IF AnyPressed({"Space"}) THEN <<FireEvent>> ELSE <<>>)

(***************************************************************************)
(* Event buffers.  Events<T> keeps an event for two frames: the frame it   *)
(* was sent in (age 0) and the next one (age 1).  An event is taken out of *)
(* the buffer when its single reader reads it.                             *)
(***************************************************************************)
\* Faulty, for comparison: a buffer that keeps an event for the frame it was
\* sent in only.
AgeEventsHasty(ch) == <<>>

RECURSIVE AgeEvents(_)
AgeEvents(ch) ==
    IF ch = <<>> THEN <<>>
    ELSE IF Head(ch).age = 0
         THEN <<[Head(ch) EXCEPT !.age = 1]>> \o AgeEvents(Tail(ch))
         ELSE AgeEvents(Tail(ch))

(***************************************************************************)
(* Aiming.                                                                 *)
(***************************************************************************)
ShipPos == <<0, 0>>
SeedPos == <<100, 100>>
EdgePos == <<HalfWidth + 1, 100>>
InitialRot == 0
QuarterTurn == 2
Turn == 8

Sign(n) == IF n > 0 THEN 1 ELSE IF n < 0 THEN -1 ELSE 0

\* f32::atan2(dy, dx) in eighths of a turn, for vectors on the axes and diagonals.
Atan2(dy, dx) ==
    LET sx == Sign(dx)
        sy == Sign(dy)
    IN  CASE sx = 1 /\ sy = 0 -> 0
          [] sx = 1 /\ sy = 1 -> 1
          [] sx = 0 /\ sy = 1 -> 2
          [] sx = -1 /\ sy = 1 -> 3
          [] sx = -1 /\ sy = 0 -> 4
          [] sx = -1 /\ sy = -1 -> -3
          [] sx = 0 /\ sy = -1 -> -2
          [] sx = 1 /\ sy = -1 -> -1
          [] OTHER -> 0

LookAngle(target, from) ==
    (Atan2(target[2] - from[2], target[1] - from[1]) - QuarterTurn) % Turn

(***************************************************************************)
(* The weapon.                                                             *)
(***************************************************************************)
SpawnLaser(origin) == [origin |-> origin, at |-> pos[ShipId], age |-> 0]

\* A faulty weapon step, for comparison: it fires without resetting the timer.
WeaponStepNoReset(w, ev, d, origin) ==
    LET t == TimerTick(w.timer, d, FireInterval)
    IN  IF ev.kind = "Fire" /\ TimerFinished(t, FireInterval)
        THEN [timer |-> t, out |-> Append(w.out, SpawnLaser(origin))]
        ELSE [timer |-> t, out |-> w.out]

\* One iteration of update_weapons' loop for the ship: tick, then fire if finished.
\* w = [timer, out]: the ship's FireTimer and the SpawnLaserEvents sent so far.
WeaponStep(w, ev, d, origin) ==
    LET t == TimerTick(w.timer, d, FireInterval)
    IN  IF ev.kind = "Fire" /\ TimerFinished(t, FireInterval)
        THEN [timer |-> TimerReset, out |-> Append(w.out, SpawnLaser(origin))]
        ELSE [timer |-> t, out |-> w.out]

RECURSIVE RunWeapons(_, _, _, _)
RunWeapons(w, evs, d, origin) ==
    IF evs = <<>> THEN w
    ELSE RunWeapons(WeaponStep(w, Head(evs), d, origin), Tail(evs), d, origin)

(***************************************************************************)
(* The frame.                                                              *)
(***************************************************************************)
NoCmds == [despawn |-> {}, spawnAsteroids |-> <<>>, spawnLasers |-> <<>>]

\* First: the clock and the input devices are sampled, the event buffers age.
BeginTick(K, D, C) ==
    /\ stage = "first"
    /\ \E k \in K, d \in D, c \in C :
        /\ keys' = k
        /\ delta' = d
        /\ cursor' = c
        /\ obs' = [obs EXCEPT !.sinceShot = IF @ = -1 THEN -1 ELSE Min(FireInterval, @ + d),
                              !.bumped = FALSE]
    /\ stage' = "pre"
    /\ ran' = {}
    /\ inputEvents' = <<>>
    /\ laserEvents' = AgeEvents(laserEvents)
    /\ asteroidEvents' = AgeEvents(asteroidEvents)
    /\ UNCHANGED <<mouse, shipRot, fireTimer, collisions, ast, lasers, cmds, nextId,
                   ships, pos>>

\* PreUpdate
update_mouse_position_system ==
    /\ stage = "pre"
    /\ mouse' = IF cursor # None THEN cursor ELSE mouse
    /\ stage' = "update"
    /\ UNCHANGED <<ran, delta, keys, cursor, shipRot, inputEvents, fireTimer, laserEvents,
                   asteroidEvents, collisions, ast, lasers, cmds, nextId, obs,
                   ships, pos>>

Runnable(sys, after) == stage = "update" /\ sys \notin ran /\ after \subseteq ran

look_at_mouse ==
    /\ Runnable("look_at_mouse", {})
    /\ shipRot' = IF ShipId \in ships THEN LookAngle(mouse, pos[ShipId]) ELSE shipRot
    /\ ran' = ran \cup {"look_at_mouse"}
    /\ UNCHANGED <<stage, delta, keys, cursor, mouse, inputEvents, fireTimer, laserEvents,
                   asteroidEvents, collisions, ast, lasers, cmds, nextId, obs,
                   ships, pos>>

proto_input ==
    /\ Runnable("proto_input", {})
    /\ inputEvents' = inputEvents \o ProtoInputEvents
    /\ ran' = ran \cup {"proto_input"}
    /\ UNCHANGED <<stage, delta, keys, cursor, mouse, shipRot, fireTimer, laserEvents,
                   asteroidEvents, collisions, ast, lasers, cmds, nextId, obs,
                   ships, pos>>

update_weapons ==
    /\ Runnable("update_weapons", {"proto_input"})
    /\ LET w == RunWeapons([timer |-> fireTimer, out |-> <<>>],
                           IF ShipId \in ships THEN inputEvents ELSE <<>>, delta, shipRot)
           n == Len(w.out)
       IN  /\ fireTimer' = w.timer
           /\ laserEvents' = laserEvents \o w.out
           /\ obs' = [obs EXCEPT !.shots = Min(MaxShots, @ + n),
                                 !.lastGap = IF n > 0 THEN obs.sinceShot ELSE @,
                                 !.sinceShot = IF n > 0 THEN 0 ELSE @]
    /\ ran' = ran \cup {"update_weapons"}
    /\ UNCHANGED <<stage, delta, keys, cursor, mouse, shipRot, inputEvents,
                   asteroidEvents, collisions, ast, lasers, cmds, nextId,
                   ships, pos>>

(***************************************************************************)
(* Asteroids.                                                              *)
(***************************************************************************)
Classes == {"Big", "Medium", "Small", "Tiny"}

\* AsteroidBundle::spawn: the health table.
StartHealth(class) ==
    CASE class = "Big" -> 5
      [] class = "Medium" -> 4
      [] class = "Small" -> 3
      [] class = "Tiny" -> 2

\* A SpawnAsteroidEvent.  ring and offset stand for the origin of a fragment, whose
\* place is not followed (at = None); the seeded asteroid's origin is followed.
SpawnAsteroid(class, ring, offset) ==
    [class |-> class, ring |-> ring, offset |-> offset, at |-> None, age |-> 0]

Ring(class, count, offset) == [n \in 1..count |-> SpawnAsteroid(class, n, offset)]

\* A faulty fragmentation, for comparison: a Big asteroid without its centre child.
ChildrenNoCentre(class, offset) ==
    CASE class = "Big" -> Ring("Medium", 6, offset)
      [] class = "Medium" -> Ring("Small", 3, offset)
      [] class = "Small" -> Ring("Tiny", 4, offset)
      [] class = "Tiny" -> <<>>

\* Faulty, for comparison: a Small asteroid breaks into five.
ChildrenFive(class, offset) ==
    CASE class = "Big" -> <<SpawnAsteroid("Medium", 0, 0)>> \o Ring("Medium", 6, offset)
      [] class = "Medium" -> Ring("Small", 3, offset)
      [] class = "Small" -> Ring("Tiny", 5, offset)
      [] class = "Tiny" -> <<>>

\* The SpawnAsteroidEvents one destroyed asteroid sends, in order; offset is the
\* angle_offset drawn for it.
Children(class, offset) ==
    CASE class = "Big" -> <<SpawnAsteroid("Medium", 0, 0)>> \o Ring("Medium", 6, offset)
      [] class = "Medium" -> Ring("Small", 3, offset)
      [] class = "Small" -> Ring("Tiny", 4, offset)
      [] class = "Tiny" -> <<>>

\* i8 subtraction of the release build (wrapping).
Dec8(h) == IF h - 1 < -128 THEN h - 1 + 256 ELSE h - 1

(***************************************************************************)
(* Collisions.                                                             *)
(***************************************************************************)
\* handle_collisions' classification: asteroid first, then laser, then ship.
Role(e) ==
    IF e \in DOMAIN ast THEN "Asteroid"
    ELSE IF e \in DOMAIN lasers THEN "Laser"
    ELSE IF e \in ships THEN "Ship"
    ELSE "Unknown"

\* Faulty resolvers, for comparison: one that knows only the (Asteroid, Laser)
\* order, one in which the ship damages an asteroid, one that keeps the laser.
ResolveEventOneSided(w, ev) ==
    LET r == <<Role(ev[1]), Role(ev[2])>>
    IN  CASE r = <<"Asteroid", "Laser">> ->
                [health |-> [w.health EXCEPT ![ev[1]] = Dec8(@)],
                 despawn |-> w.despawn \cup {ev[2]}]
          [] OTHER -> w

ResolveEventShipHurts(w, ev) ==
    LET r == <<Role(ev[1]), Role(ev[2])>>
    IN  CASE r = <<"Asteroid", "Laser">> ->
                [health |-> [w.health EXCEPT ![ev[1]] = Dec8(@)],
                 despawn |-> w.despawn \cup {ev[2]}]
          [] r = <<"Laser", "Asteroid">> ->
                [health |-> [w.health EXCEPT ![ev[2]] = Dec8(@)],
                 despawn |-> w.despawn \cup {ev[1]}]
          [] r = <<"Asteroid", "Ship">> ->
                [health |-> [w.health EXCEPT ![ev[1]] = Dec8(@)],
                 despawn |-> w.despawn]
          [] OTHER -> w

ResolveEventKeepsLaser(w, ev) ==
    LET r == <<Role(ev[1]), Role(ev[2])>>
    IN  CASE r = <<"Asteroid", "Laser">> ->
                [health |-> [w.health EXCEPT ![ev[1]] = Dec8(@)],
                 despawn |-> w.despawn]
          [] r = <<"Laser", "Asteroid">> ->
                [health |-> [w.health EXCEPT ![ev[2]] = Dec8(@)],
                 despawn |-> w.despawn \cup {ev[1]}]
          [] OTHER -> w

\* Faulty: a hit is felt by every asteroid.
ResolveEventSplash(w, ev) ==
    IF {Role(ev[1]), Role(ev[2])} = {"Asteroid", "Laser"}
    THEN [health |-> [a \in DOMAIN w.health |-> Dec8(w.health[a])],
          despawn |-> w.despawn \cup {IF Role(ev[1]) = "Laser" THEN ev[1] ELSE ev[2]}]
    ELSE w

\* Faulty: the ship does not survive an asteroid.
ResolveEventShipDies(w, ev) ==
    LET r == <<Role(ev[1]), Role(ev[2])>>
    IN  CASE r = <<"Asteroid", "Laser">> ->
                [health |-> [w.health EXCEPT ![ev[1]] = Dec8(@)],
                 despawn |-> w.despawn \cup {ev[2]}]
          [] r = <<"Laser", "Asteroid">> ->
                [health |-> [w.health EXCEPT ![ev[2]] = Dec8(@)],
                 despawn |-> w.despawn \cup {ev[1]}]
          [] r = <<"Asteroid", "Ship">> -> [w EXCEPT !.despawn = @ \cup {ev[2]}]
          [] r = <<"Ship", "Asteroid">> -> [w EXCEPT !.despawn = @ \cup {ev[1]}]
          [] OTHER -> w

\* One iteration of handle_collisions' loop.  w = [health, despawn]: the
\* AsteroidHealth components and the despawn commands queued so far.
ResolveEvent(w, ev) ==
    LET r == <<Role(ev[1]), Role(ev[2])>>
    IN  CASE r = <<"Asteroid", "Laser">> ->
                [health |-> [w.health EXCEPT ![ev[1]] = Dec8(@)],
                 despawn |-> w.despawn \cup {ev[2]}]
          [] r = <<"Laser", "Asteroid">> ->
                [health |-> [w.health EXCEPT ![ev[2]] = Dec8(@)],
                 despawn |-> w.despawn \cup {ev[1]}]
          [] OTHER -> w

RECURSIVE ResolveAll(_, _)
ResolveAll(w, evs) ==
    IF evs = {} THEN w
    ELSE LET ev == CHOOSE e \in evs : TRUE
         IN  ResolveAll(ResolveEvent(w, ev), evs \ {ev})

Healths == [a \in DOMAIN ast |-> ast[a].health]

\* The asteroid and the laser of a collision event that has a rule.
IsHit(ev) == {Role(ev[1]), Role(ev[2])} = {"Asteroid", "Laser"}
HitAsteroid(ev) == IF Role(ev[1]) = "Asteroid" THEN ev[1] ELSE ev[2]
HitLaser(ev) == IF Role(ev[1]) = "Laser" THEN ev[1] ELSE ev[2]

RandVals == 0..MaxRand

RECURSIVE SetToSeq(_)
\* A set of entity ids as a sequence, lowest id first (the query's iteration order).
SetToSeq(S) ==
    IF S = {} THEN <<>>
    ELSE LET m == CHOOSE x \in S : \A y \in S : x <= y
         IN  <<m>> \o SetToSeq(S \ {m})

RECURSIVE Flatten(_)
Flatten(ss) == IF ss = <<>> THEN <<>> ELSE Head(ss) \o Flatten(Tail(ss))

RECURSIVE LowestK(_, _)
\* The k lowest ids of a set of entities.
LowestK(S, k) ==
    IF k = 0 \/ S = {} THEN {}
    ELSE LET m == CHOOSE x \in S : \A y \in S : x <= y
         IN  {m} \cup LowestK(S \ {m}, k - 1)

RECURSIVE SubsetsUpTo(_, _)
SubsetsUpTo(S, k) ==
    IF k = 0 THEN {{}}
    ELSE LET P == SubsetsUpTo(S, k - 1)
         IN  P \cup {p \cup {x} : p \in P, x \in S}

\* A faulty test of destruction, for comparison: health 0 still counts as alive.
DeadStrict == {a \in DOMAIN ast : ast[a].health < 0}

\* The asteroids handle_destroyed_asteroids finds destroyed.
Dead == {a \in DOMAIN ast : ast[a].health <= 0}

handle_collisions ==
    /\ Runnable("handle_collisions", {})
    /\ LET w == ResolveAll([health |-> Healths, despawn |-> {}], collisions)
           hit == {ev \in collisions : IsHit(ev)}
       IN  /\ ast' = [a \in DOMAIN ast |-> [ast[a] EXCEPT !.health = w.health[a]]]
           /\ cmds' = [cmds EXCEPT !.despawn = @ \cup w.despawn]
           /\ obs' = [obs EXCEPT
                  !.hits = [a \in DOMAIN @ |->
                              @[a] + Cardinality({ev \in hit : HitAsteroid(ev) = a})],
                  !.bumped = \E ev \in collisions : "Ship" \in {Role(ev[1]), Role(ev[2])}]
    /\ collisions' = {}
    /\ ran' = ran \cup {"handle_collisions"}
    /\ UNCHANGED <<stage, delta, keys, cursor, mouse, shipRot, inputEvents, fireTimer,
                   laserEvents, asteroidEvents, lasers, nextId,
                   ships, pos>>

\* Faulty, for comparison: the destroyed asteroid is not despawned.
handle_destroyed_asteroids_keeps ==
    /\ Runnable("handle_destroyed_asteroids", {})
    /\ \E r \in [Dead -> RandVals] :
        LET order == SetToSeq(Dead)
            sent == [i \in 1..Len(order) |-> Children(ast[order[i]].class, r[order[i]])]
        IN  /\ asteroidEvents' = asteroidEvents \o Flatten(sent)
            /\ obs' = [obs EXCEPT !.frag = [a \in DOMAIN @ |->
                          IF a \in Dead
                          THEN @[a] \o [i \in 1..Len(Children(ast[a].class, r[a])) |->
                                           Children(ast[a].class, r[a])[i].class]
                          ELSE @[a]]]
    /\ cmds' = cmds
    /\ ran' = ran \cup {"handle_destroyed_asteroids"}
    /\ UNCHANGED <<stage, delta, keys, cursor, mouse, shipRot, inputEvents, fireTimer,
                   laserEvents, collisions, ast, lasers, nextId,
                   ships, pos>>

handle_destroyed_asteroids ==
    /\ Runnable("handle_destroyed_asteroids", {})
    /\ \E r \in [Dead -> RandVals] :
        LET order == SetToSeq(Dead)
            sent == [i \in 1..Len(order) |-> Children(ast[order[i]].class, r[order[i]])]
        IN  /\ asteroidEvents' = asteroidEvents \o Flatten(sent)
            /\ obs' = [obs EXCEPT !.frag = [a \in DOMAIN @ |->
                          IF a \in Dead
                          THEN @[a] \o [i \in 1..Len(Children(ast[a].class, r[a])) |->
                                           Children(ast[a].class, r[a])[i].class]
                          ELSE @[a]]]
    /\ cmds' = [cmds EXCEPT !.despawn = @ \cup Dead]
    /\ ran' = ran \cup {"handle_destroyed_asteroids"}
    /\ UNCHANGED <<stage, delta, keys, cursor, mouse, shipRot, inputEvents, fireTimer,
                   laserEvents, collisions, ast, lasers, nextId,
                   ships, pos>>

asteroid_spawner ==
    /\ Runnable("asteroid_spawner", {})
    /\ cmds' = [cmds EXCEPT !.spawnAsteroids = @ \o
                   [i \in 1..Len(asteroidEvents) |->
                       [class |-> asteroidEvents[i].class,
                        health |-> StartHealth(asteroidEvents[i].class),
                        at |-> asteroidEvents[i].at]]]
    /\ asteroidEvents' = <<>>
    /\ ran' = ran \cup {"asteroid_spawner"}
    /\ UNCHANGED <<stage, delta, keys, cursor, mouse, shipRot, inputEvents, fireTimer,
                   laserEvents, collisions, ast, lasers, nextId, obs,
                   ships, pos>>

laser_spawner ==
    /\ Runnable("laser_spawner", {"update_weapons"})
    /\ cmds' = [cmds EXCEPT !.spawnLasers = @ \o
                   [i \in 1..Len(laserEvents) |->
                       [origin |-> laserEvents[i].origin, at |-> laserEvents[i].at]]]
    /\ laserEvents' = <<>>
    /\ ran' = ran \cup {"laser_spawner"}
    /\ UNCHANGED <<stage, delta, keys, cursor, mouse, shipRot, inputEvents, fireTimer,
                   asteroidEvents, collisions, ast, lasers, nextId, obs,
                   ships, pos>>

(***************************************************************************)
(* The boundary wrapper.                                                   *)
(***************************************************************************)
\* Faulty, for comparison: the edge itself counts as outside.
WrapLoose(p) ==
    LET y1 == IF p[2] >= HalfHeight THEN -p[2] + 1 ELSE p[2]
        x1 == IF p[1] >= HalfWidth THEN -p[1] + 1 ELSE p[1]
        y2 == IF y1 <= -HalfHeight THEN -y1 - 1 ELSE y1
        x2 == IF x1 <= -HalfWidth THEN -x1 - 1 ELSE x1
    IN  <<x2, y2>>

\* The four tests of the loop body, in the order the code makes them; each test
\* reads what the tests before it wrote.
Wrap(p) ==
    LET y1 == IF p[2] > HalfHeight THEN -p[2] + 1 ELSE p[2]
        x1 == IF p[1] > HalfWidth THEN -p[1] + 1 ELSE p[1]
        y2 == IF y1 < -HalfHeight THEN -y1 - 1 ELSE y1
        x2 == IF x1 < -HalfWidth THEN -x1 - 1 ELSE x1
    IN  <<x2, y2>>

\* Query<&mut Transform, Or<(&Ship, &AsteroidClass)>>
Wrapped == ships \cup DOMAIN ast

wrapper ==
    /\ Runnable("wrapper", {})
    /\ pos' = [b \in DOMAIN pos |-> IF b \in Wrapped THEN Wrap(pos[b]) ELSE pos[b]]
    /\ ran' = ran \cup {"wrapper"}
    /\ UNCHANGED <<stage, delta, keys, cursor, mouse, shipRot, inputEvents, fireTimer,
                   laserEvents, asteroidEvents, collisions, ast, lasers, cmds, nextId, obs,
                   ships>>

\* The deferred commands of a schedule are applied when it ends.
ApplyCommands ==
    LET na == Len(cmds.spawnAsteroids)
        nl == Len(cmds.spawnLasers)
        newA == nextId..(nextId + na - 1)
        newL == (nextId + na)..(nextId + na + nl - 1)
        keptA == DOMAIN ast \ cmds.despawn
        spawned(a) == cmds.spawnAsteroids[a - nextId + 1]
        fired(l) == cmds.spawnLasers[l - nextId - na + 1]
        bundle(a) == [class |-> spawned(a).class, health |-> spawned(a).health]
        placed == {a \in newA : spawned(a).at # None} \cup newL
    IN  /\ ast' = [a \in keptA \cup newA |-> IF a \in keptA THEN ast[a] ELSE bundle(a)]
        /\ lasers' = [l \in (DOMAIN lasers \ cmds.despawn) \cup newL |->
                         IF l \in DOMAIN lasers THEN lasers[l]
                         ELSE [origin |-> fired(l).origin, life |-> 0]]
        /\ ships' = ships \ cmds.despawn
        /\ pos' = [b \in (DOMAIN pos \ cmds.despawn) \cup placed |->
                      IF b \in DOMAIN pos THEN pos[b]
                      ELSE IF b \in newA THEN spawned(b).at ELSE fired(b).at]
        /\ nextId' = nextId + na + nl
        /\ cmds' = NoCmds
        /\ obs' = [obs EXCEPT
               !.flown = [l \in (DOMAIN @ \ cmds.despawn) \cup newL |->
                            IF l \in DOMAIN @ THEN @[l] ELSE 0],
               !.born = [a \in DOMAIN @ \cup newA |-> IF a \in DOMAIN @ THEN @[a] ELSE bundle(a)],
               !.hits = [a \in DOMAIN @ \cup newA |-> IF a \in DOMAIN @ THEN @[a] ELSE 0],
               !.frag = [a \in DOMAIN @ \cup newA |-> IF a \in DOMAIN @ THEN @[a] ELSE <<>>],
               !.overdue = [a \in DOMAIN @ \cup newA |->
                            IF a \in DOMAIN @
                            THEN @[a] + (IF a \in keptA /\ ast[a].health <= 0 /\ stage = "update"
                                         THEN 1 ELSE 0)
                            ELSE 0]]

EndUpdate(systems, next) ==
    /\ stage = "update"
    /\ ran = systems
    /\ ApplyCommands
    /\ stage' = next
    /\ ran' = {}
    /\ UNCHANGED <<delta, keys, cursor, mouse, shipRot, inputEvents, fireTimer,
                   laserEvents, asteroidEvents, collisions>>

\* Faulty, for comparison: a bolt is given up at half its lifetime.
update_lifetimes_half ==
    /\ stage = "post"
    /\ "update_lifetimes" \notin ran
    /\ lasers' = [l \in DOMAIN lasers |->
                     [lasers[l] EXCEPT !.life = TimerTick(@, delta, LifetimeDuration)]]
    /\ cmds' = [cmds EXCEPT !.despawn = @ \cup
                   {l \in DOMAIN lasers : TimerFinished(2 * lasers'[l].life, LifetimeDuration)}]
    /\ obs' = [obs EXCEPT !.flown = [l \in DOMAIN @ |-> @[l] + delta]]
    /\ ran' = ran \cup {"update_lifetimes"}
    /\ UNCHANGED <<stage, delta, keys, cursor, mouse, shipRot, inputEvents, fireTimer,
                   laserEvents, asteroidEvents, collisions, ast, nextId, ships, pos>>

\* PostUpdate.  obs.flown adds up the frame times a bolt has been ticked with.
update_lifetimes ==
    /\ stage = "post"
    /\ "update_lifetimes" \notin ran
    /\ lasers' = [l \in DOMAIN lasers |->
                     [lasers[l] EXCEPT !.life = TimerTick(@, delta, LifetimeDuration)]]
    /\ cmds' = [cmds EXCEPT !.despawn = @ \cup
                   {l \in DOMAIN lasers : TimerFinished(lasers'[l].life, LifetimeDuration)}]
    /\ obs' = [obs EXCEPT !.flown = [l \in DOMAIN @ |-> @[l] + delta]]
    /\ ran' = ran \cup {"update_lifetimes"}
    /\ UNCHANGED <<stage, delta, keys, cursor, mouse, shipRot, inputEvents, fireTimer,
                   laserEvents, asteroidEvents, collisions, ast, nextId, ships, pos>>

\* The asteroids the physics step reports on.
Targets == LowestK(DOMAIN ast, MaxTargets)

\* Contacts the collision layers allow: an asteroid with anything else.  Of the
\* contacts no rule applies to, those of the lowest asteroid with the ship and with
\* the next asteroid stand for all.
Contacts ==
    LET first == LowestK(DOMAIN ast, 1)
        second == LowestK(DOMAIN ast \ first, 1)
        bolts == DOMAIN lasers
    IN  (Targets \X bolts) \cup (bolts \X Targets)
        \cup (first \X ships) \cup (ships \X first) \cup (first \X second)

\* One Collision event per pair of bodies in contact, in either order.
OnePerPair(evs) == \A ev \in evs : <<ev[2], ev[1]>> \notin evs

\* PostUpdate: the physics step sends this frame's Collision events.
PhysicsStep ==
    /\ stage = "post"
    /\ "physics" \notin ran
    /\ \E evs \in SubsetsUpTo(Contacts, MaxCollisions) :
        /\ OnePerPair(evs)
        /\ collisions' = collisions \cup evs
    /\ ran' = ran \cup {"physics"}
    /\ UNCHANGED <<stage, delta, keys, cursor, mouse, shipRot, inputEvents, fireTimer,
                   laserEvents, asteroidEvents, ast, lasers, cmds, nextId, obs,
                   ships, pos>>

EndPostUpdate ==
    /\ stage = "post"
    /\ ran = {"update_lifetimes", "physics"}
    /\ ApplyCommands
    /\ stage' = "first"
    /\ ran' = {}
    /\ UNCHANGED <<delta, keys, cursor, mouse, shipRot, inputEvents, fireTimer,
                   laserEvents, asteroidEvents, collisions>>

(***************************************************************************)
(* Initial states and specifications.                                      *)
(***************************************************************************)
NoObs ==
    [sinceShot |-> -1, lastGap |-> -1, shots |-> 0,
     born |-> [a \in {} |-> 0], hits |-> [a \in {} |-> 0], frag |-> [a \in {} |-> <<>>],
     overdue |-> [a \in {} |-> 0], flown |-> [l \in {} |-> 0],
     bumped |-> FALSE]

InitCommon ==
    /\ stage = "first"
    /\ ran = {}
    /\ delta = 0
    /\ keys = {}
    /\ cursor = None
    /\ mouse = <<0, 0>>
    /\ shipRot = InitialRot
    /\ inputEvents = <<>>
    /\ fireTimer = 0
    /\ laserEvents = <<>>
    /\ collisions = {}
    /\ lasers = [l \in {} |-> 0]
    /\ cmds = NoCmds
    /\ ships = {ShipId}

\* The state setup leaves: the ship, the Mouse entity, one Big asteroid requested.
Init ==
    /\ InitCommon
    /\ asteroidEvents = <<[SpawnAsteroid("Big", 0, 0) EXCEPT !.at = SeedPos]>>
    /\ ast = [a \in {} |-> 0]
    /\ pos = [b \in {ShipId} |-> ShipPos]
    /\ nextId = 1
    /\ obs = NoObs

\* A later state of a session: one asteroid of some class left, at full health and
\* adrift one unit past the right edge, and as many shots left in the run as it
\* takes to destroy it.
InitOne ==
    /\ InitCommon
    /\ asteroidEvents = <<>>
    /\ \E c \in Classes \ {"Big"} :
        /\ ast = [a \in {1} |-> [class |-> c, health |-> StartHealth(c)]]
        /\ obs = [NoObs EXCEPT !.shots = MaxShots - StartHealth(c),
                               !.born = [a \in {1} |-> [class |-> c, health |-> StartHealth(c)]],
                               !.hits = [a \in {1} |-> 0],
                               !.frag = [a \in {1} |-> <<>>],
                               !.overdue = [a \in {1} |-> 0]]
    /\ pos = [b \in {ShipId, 1} |-> IF b = ShipId THEN ShipPos ELSE EdgePos]
    /\ nextId = 2

\* Input of the weapon runs: movement and fire keys, short frames, a few cursor places.
WeaponKeys == SUBSET {"A", "D", "Space"}
WeaponDeltas == 1..MaxDelta
WeaponCursors == {None, <<1, 0>>, <<0, 1>>}
WeaponSystems == {"look_at_mouse", "proto_input", "update_weapons"}

NextWeapon ==
    \/ BeginTick(WeaponKeys, WeaponDeltas, WeaponCursors)
    \/ update_mouse_position_system
    \/ look_at_mouse
    \/ proto_input
    \/ update_weapons
    \/ EndUpdate(WeaponSystems, "first")

SpecWeapon == Init /\ [][NextWeapon]_vars

\* update_weapons as a reader of Events<InputAction>: the frame's queue holds any
\* intents, whoever sent them.
Intents == {MoveEvent(1, 0), FireEvent}
IntentQueues == UNION {[1..n -> Intents] : n \in 0..MaxIntents}

queue_intents ==
    /\ Runnable("proto_input", {})
    /\ \E q \in IntentQueues : inputEvents' = inputEvents \o q
    /\ ran' = ran \cup {"proto_input"}
    /\ UNCHANGED <<stage, delta, keys, cursor, mouse, shipRot, fireTimer, laserEvents,
                   asteroidEvents, collisions, ast, lasers, cmds, nextId, obs,
                   ships, pos>>

NextIntents ==
    \/ BeginTick({{}}, WeaponDeltas, WeaponCursors)
    \/ update_mouse_position_system
    \/ look_at_mouse
    \/ queue_intents
    \/ update_weapons
    \/ EndUpdate(WeaponSystems, "first")

SpecIntents == Init /\ [][NextIntents]_vars

\* Input of the world runs: the fire key while shots remain, long frames.
CanFire == obs.shots < MaxShots /\ Cardinality(DOMAIN lasers) < MaxLasers
WorldKeys == IF CanFire THEN {{}, {"Space"}} ELSE {{}}
WorldDeltas == {LifetimeDuration \div 2}
WorldSystems == {"proto_input", "update_weapons", "laser_spawner", "asteroid_spawner",
                 "handle_collisions", "handle_destroyed_asteroids", "wrapper"}

\* The input systems share no data with the asteroid systems, so every order of the
\* two groups ends in the same state: the input systems are run after the asteroid
\* systems, which run in every order among themselves.  The wrapper writes places
\* only, which no asteroid system reads, and the ship of these runs stays where
\* setup put it: the wrapper is run between the two groups.
AsteroidSystems == {"asteroid_spawner", "handle_collisions", "handle_destroyed_asteroids"}
AsteroidsDone == AsteroidSystems \subseteq ran

Next ==
    \/ BeginTick(WorldKeys, WorldDeltas, {None})
    \/ update_mouse_position_system
    \/ AsteroidsDone /\ wrapper
    \/ "wrapper" \in ran /\ proto_input
    \/ update_weapons
    \/ laser_spawner
    \/ asteroid_spawner
    \/ handle_collisions
    \/ handle_destroyed_asteroids
    \/ EndUpdate(WorldSystems, "post")
    \/ update_lifetimes
    \/ PhysicsStep
    \/ EndPostUpdate

Spec == Init /\ [][Next]_vars

SpecWorld == (Init \/ InitOne) /\ [][Next]_vars

\* Runs in which no body touches another: frames of two lengths, neither of
\* which divides the lifetime of a bolt evenly with the other.
FlightDeltas == {LifetimeDuration \div 2, LifetimeDuration \div 3 + 1}
FlightSystems == {"proto_input", "update_weapons", "laser_spawner", "asteroid_spawner"}

NextFlight ==
    \/ BeginTick(WorldKeys, FlightDeltas, {None})
    \/ update_mouse_position_system
    \/ proto_input
    \/ update_weapons
    \/ laser_spawner
    \/ asteroid_spawner
    \/ EndUpdate(FlightSystems, "post")
    \/ update_lifetimes
    \/ PhysicsStep /\ collisions' = {}
    \/ EndPostUpdate

SpecFlight == Init /\ [][NextFlight]_vars

\* Runs that follow where the bodies are.  A later state of a session: the seeded
\* asteroid spawned, one bolt just fired from where the ship is.
InitBolt ==
    /\ stage = "first"
    /\ ran = {}
    /\ delta = 0
    /\ keys = {}
    /\ cursor = None
    /\ mouse = <<0, 0>>
    /\ shipRot = InitialRot
    /\ inputEvents = <<>>
    /\ fireTimer = TimerReset
    /\ laserEvents = <<>>
    /\ asteroidEvents = <<>>
    /\ collisions = {}
    /\ ast = [a \in {1} |-> [class |-> "Big", health |-> StartHealth("Big")]]
    /\ lasers = [l \in {2} |-> [origin |-> InitialRot, life |-> 0]]
    /\ cmds = NoCmds
    /\ ships = {ShipId}
    /\ pos = [b \in {ShipId, 1, 2} |-> IF b = 1 THEN SeedPos ELSE ShipPos]
    /\ nextId = 3
    /\ obs = [NoObs EXCEPT !.shots = 1,
                           !.born = [a \in {1} |-> ast[a]],
                           !.hits = [a \in {1} |-> 0],
                           !.frag = [a \in {1} |-> <<>>],
                           !.overdue = [a \in {1} |-> 0],
                           !.flown = [l \in {2} |-> 0]]

\* Where the integration of a physics step may leave a body: at the centre, on an
\* edge of the play field, or up to MaxOver past it, on either axis.
Axis(half) == {0} \cup {half + k : k \in 0..MaxOver} \cup {-half - k : k \in 0..MaxOver}
Places == Axis(HalfWidth) \X Axis(HalfHeight)
\* A bolt flies on: it is seen on a corner of the play field and beyond one.
BoltPlaces == {<<HalfWidth, HalfHeight>>, <<HalfWidth + MaxOver, -HalfHeight - MaxOver>>}

\* PostUpdate: the physics step moves a body and reports no contact.
Integrate ==
    /\ stage = "post"
    /\ "physics" \notin ran
    /\ \E b \in DOMAIN pos :
          \E p \in IF b \in DOMAIN lasers THEN BoltPlaces ELSE Places :
              pos' = [pos EXCEPT ![b] = p]
    /\ ran' = ran \cup {"physics"}
    /\ UNCHANGED <<stage, delta, keys, cursor, mouse, shipRot, inputEvents, fireTimer,
                   laserEvents, asteroidEvents, collisions, ast, lasers, cmds, nextId, obs,
                   ships>>

WrapSystems == {"asteroid_spawner", "wrapper"}
WrapDeltas == {LifetimeDuration \div 4}

NextWrap ==
    \/ BeginTick({{}}, WrapDeltas, {None})
    \/ update_mouse_position_system
    \/ asteroid_spawner
    \/ wrapper
    \/ EndUpdate(WrapSystems, "post")
    \/ update_lifetimes
    \/ Integrate
    \/ EndPostUpdate

SpecWrap == (Init \/ InitBolt) /\ [][NextWrap]_vars

\* The keyboard: every combination of the keys proto_input reads, frame after frame.
InputDeltas == {1}
InputSystems == {"proto_input"}

NextInput ==
    \/ BeginTick(SUBSET KeyCodes, InputDeltas, {None})
    \/ update_mouse_position_system
    \/ proto_input
    \/ EndUpdate(InputSystems, "first")

SpecInput == Init /\ [][NextInput]_vars

\* The schedule as main builds it: the systems of Update in every order that the
\* .after constraints allow.
ScheduleSystems == WorldSystems \cup {"look_at_mouse"}

NextSchedule ==
    \/ BeginTick(WorldKeys, WorldDeltas, {None})
    \/ update_mouse_position_system
    \/ look_at_mouse
    \/ proto_input
    \/ update_weapons
    \/ laser_spawner
    \/ asteroid_spawner
    \/ handle_collisions
    \/ handle_destroyed_asteroids
    \/ wrapper
    \/ EndUpdate(ScheduleSystems, "post")
    \/ update_lifetimes
    \/ PhysicsStep
    \/ EndPostUpdate

SpecSchedule == Init /\ [][NextSchedule]_vars

\* Runs in which every live asteroid keeps being hit: the fire key is held while
\* an asteroid is left or requested, a frame lasts as long as the weapon needs to
\* fire again, and every physics step reports the oldest bolt in contact with the
\* oldest asteroid.  The game loop runs frame after frame.  Of the orders of the
\* Update systems the runs take the one that delays the cascade most: requests
\* sent in a frame are read in the next one, and an asteroid is found destroyed
\* the frame after its last hit.
AsteroidsLeft == DOMAIN ast # {} \/ asteroidEvents # <<>> \/ cmds.spawnAsteroids # <<>>
CascadeKeys == IF AsteroidsLeft THEN {{"Space"}} ELSE {{}}
CascadeDeltas == {FireInterval}
BarrageEvents == LowestK(DOMAIN ast, 1) \X LowestK(DOMAIN lasers, 1)

Barrage == PhysicsStep /\ collisions' = BarrageEvents

NextCascade ==
    \/ BeginTick(CascadeKeys, CascadeDeltas, {None})
    \/ update_mouse_position_system
    \/ AsteroidsDone /\ wrapper
    \/ "wrapper" \in ran /\ proto_input
    \/ update_weapons
    \/ laser_spawner
    \/ asteroid_spawner
    \/ "asteroid_spawner" \in ran /\ handle_destroyed_asteroids
    \/ "handle_destroyed_asteroids" \in ran /\ handle_collisions
    \/ EndUpdate(WorldSystems, "post")
    \/ update_lifetimes
    \/ Barrage
    \/ EndPostUpdate

SpecCascade == Init /\ [][NextCascade]_vars /\ WF_vars(NextCascade)

(***************************************************************************)
(* Properties of the weapon (checked under SpecWeapon).                    *)
(***************************************************************************)
\* The update_weapons step of a frame.
WeaponsRun == "update_weapons" \notin ran /\ "update_weapons" \in ran'

\* The SpawnLaserEvents sent in the current frame.
SentThisTick == {i \in DOMAIN laserEvents : laserEvents[i].age = 0}

\* C1: between two consecutive laser spawn requests at least one full fire
\* interval of frame time has elapsed, whatever keys are held.
C1_RateLimit == obs.lastGap = -1 \/ obs.lastGap >= FireInterval

\* C2: in every frame the cooldown timer advances by exactly the frame's delta,
\* once, whether the frame carried zero, one or several intents (a frame that
\* fires resets it instead).
C2_TimerAdvancesOncePerTick ==
    [][(WeaponsRun /\ laserEvents' = laserEvents)
         => fireTimer' = Min(FireInterval, fireTimer + delta)]_vars

FirePos == {i \in DOMAIN inputEvents : inputEvents[i].kind = "Fire"}
\* The timer as the Fire intent at position i finds it: one tick per intent so far.
TimerAtFire(i) == Min(FireInterval, fireTimer + i * delta)
C4_WeaponStateMachine ==
    [][WeaponsRun =>
         IF \E i \in FirePos : TimerAtFire(i) >= FireInterval
         THEN /\ laserEvents' = Append(laserEvents,
                                          [origin |-> shipRot, at |-> pos[ShipId], age |-> 0])
              /\ fireTimer' = 0
         ELSE /\ laserEvents' = laserEvents
              /\ fireTimer' = Min(FireInterval, fireTimer + Len(inputEvents) * delta)
              /\ inputEvents # <<>> => fireTimer' > 0]_vars

C4_Witness ==
    /\ "update_weapons" \in ran
    /\ FirePos # {}
    /\ SentThisTick # {}
    /\ fireTimer = 0
    /\ shipRot # InitialRot

(***************************************************************************)
(* Properties of the collision resolver and of fragmentation (checked      *)
(* under SpecWorld).                                                       *)
(***************************************************************************)
\* The handle_collisions step of a frame.
CollisionsRun == "handle_collisions" \notin ran /\ "handle_collisions" \in ran'

\* Every entity id in use so far, and one that never existed.
AllIds == 0..nextId

\* The roles handle_collisions tells apart; the oldest and the youngest entity of
\* every role stand for the role.
Roles == {"Asteroid", "Laser", "Ship", "Unknown"}
OfRole(r) ==
    CASE r = "Asteroid" -> DOMAIN ast
      [] r = "Laser" -> DOMAIN lasers
      [] r = "Ship" -> ships
      [] r = "Unknown" -> AllIds \ (DOMAIN ast \cup DOMAIN lasers \cup ships)
Ends(S) == LowestK(S, 1) \cup {e \in S : \A f \in S : f <= e}
Sample == UNION {Ends(OfRole(r)) : r \in Roles}

\* The resolver's working state before any event.
Untouched == [health |-> Healths, despawn |-> {}]


\* Asteroid-laser collision events read in this step that name asteroid a.
HitsOn(a) == {ev \in collisions : IsHit(ev) /\ HitAsteroid(ev) = a}

\* C5: for every Asteroid-Projectile collision event, in either order,
\* handle_collisions queues the projectile's despawn and takes exactly 1 off that
\* asteroid's health; the projectile is gone when the frame's Update ends, whatever
\* its remaining lifetime, and its id is never used again.
C5_HitResolution ==
    [][/\ CollisionsRun =>
            /\ \A ev \in collisions : IsHit(ev) => HitLaser(ev) \in cmds'.despawn
            /\ \A a \in DOMAIN ast :
                  ast'[a].health = ast[a].health - Cardinality(HitsOn(a))
       /\ (stage = "update" /\ stage' = "update") => cmds.despawn \subseteq cmds'.despawn
       /\ (stage = "update" /\ stage' = "post") => DOMAIN lasers' \cap cmds.despawn = {}
       /\ \A l \in DOMAIN lasers' \ DOMAIN lasers : l >= nextId
       /\ nextId' >= nextId]_vars

C5_Witness ==
    /\ stage = "update"
    /\ "handle_collisions" \in ran
    /\ \E l \in DOMAIN lasers : l \in cmds.despawn /\ lasers[l].life < LifetimeDuration

\* C6: resolving the collision event (A, B) gives the same asteroid healths and
\* the same despawns as resolving (B, A), for entities A and B of every pair of
\* roles (Asteroid, Laser, Ship, Unknown) and every state.
C6_Symmetric ==
    LET w == Untouched
        s == Sample
    IN  \A x \in s, y \in s :
            ResolveEvent(w, <<x, y>>) = ResolveEvent(w, <<y, x>>)

C6_Witness ==
    /\ stage = "update"
    /\ \E ev \in collisions : Role(ev[1]) = "Laser" /\ Role(ev[2]) = "Asteroid"

\* C7: a collision event of any pair other than Asteroid-Projectile (two asteroids,
\* asteroid and ship, a side that is Unknown, two projectiles, projectile and
\* ship) changes no asteroid's health and despawns nothing; handle_collisions
\* changes only the asteroids named in Asteroid-Projectile events and despawns
\* only the projectiles of those events.
C7_NoRuleNoEffect ==
    /\ [](LET w == Untouched
               s == Sample
           IN  \A x \in s, y \in s :
                   {Role(x), Role(y)} # {"Asteroid", "Laser"} => ResolveEvent(w, <<x, y>>) = w)
    /\ [][CollisionsRun =>
            /\ \A a \in DOMAIN ast : HitsOn(a) = {} => ast'[a] = ast[a]
            /\ DOMAIN ast' = DOMAIN ast
            /\ lasers' = lasers
            /\ cmds' = [cmds EXCEPT !.despawn =
                           @ \cup {HitLaser(ev) : ev \in {e \in collisions : IsHit(e)}}]]_vars

C7_Witness ==
    /\ stage = "update"
    /\ "handle_collisions" \notin ran
    /\ \E ev \in collisions : "Unknown" \in {Role(ev[1]), Role(ev[2])}
    /\ \E ev \in collisions : {Role(ev[1]), Role(ev[2])} = {"Asteroid", "Ship"}

\* C8: at the end of every frame every asteroid that still exists has health > 0,
\* for every order of the Update systems the schedule permits.
C8_HealthPositive == stage = "first" => \A a \in DOMAIN ast : ast[a].health > 0

\* C9: a destroyed Big asteroid sends exactly 7 spawn requests of class Medium, a
\* Medium 3 of class Small, a Small 4 of class Tiny, a Tiny none, whatever random
\* values are drawn; an asteroid that is not destroyed sends none; every asteroid
\* starts with the health of its class: Big 5, Medium 4, Small 3, Tiny 2.
Repeat(n, c) == [i \in 1..n |-> c]
ExpectedFragments(class) ==
    CASE class = "Big" -> Repeat(7, "Medium")
      [] class = "Medium" -> Repeat(3, "Small")
      [] class = "Small" -> Repeat(4, "Tiny")
      [] class = "Tiny" -> <<>>
HealthTable == [Big |-> 5, Medium |-> 4, Small |-> 3, Tiny |-> 2]
Destroyed(a) == a \notin DOMAIN ast \/ a \in cmds.despawn

C9_Fragmentation ==
    \A a \in DOMAIN obs.born :
        /\ obs.born[a].health = HealthTable[obs.born[a].class]
        /\ obs.frag[a] = IF Destroyed(a) THEN ExpectedFragments(obs.born[a].class) ELSE <<>>

C9_Witness ==
    /\ \E a \in DOMAIN obs.born : obs.born[a].class = "Big" /\ Len(obs.frag[a]) = 7
    /\ Cardinality({a \in DOMAIN ast : ast[a].class = "Medium" /\ ast[a].health = 4}) = 7

\* C10: an asteroid of starting health h is alive, with its class, after each of
\* its first h-1 Asteroid-Projectile collisions; once it has taken h it outlives at
\* most the frame of the h-th collision, and when it is despawned the spawn
\* requests of its fragmentation have been sent.
C10_Destruction ==
    \A a \in DOMAIN obs.born :
        LET h == HealthTable[obs.born[a].class]
        IN  IF obs.hits[a] < h
            THEN /\ a \in DOMAIN ast
                 /\ ast[a].class = obs.born[a].class
                 /\ ast[a].health = h - obs.hits[a]
                 /\ obs.frag[a] = <<>>
                 /\ obs.overdue[a] = 0
            ELSE /\ obs.overdue[a] <= 1
                 /\ a \notin DOMAIN ast => obs.frag[a] = ExpectedFragments(obs.born[a].class)

C10_Witness ==
    \E a \in DOMAIN obs.born :
        /\ obs.born[a].class = "Big"
        /\ obs.hits[a] = 5
        /\ obs.overdue[a] = 1
        /\ a \notin DOMAIN ast
        /\ stage = "first"

(***************************************************************************)
(* C11: what changes an asteroid (under SpecWorld).                        *)
(***************************************************************************)
\* Asteroids spawned so far that no Asteroid-Projectile event has named.
NeverHit == {a \in DOMAIN obs.born : obs.hits[a] = 0}

\* C11: an asteroid's class and health change only in the handle_collisions step
\* of a frame whose collision events pair it with a projectile; an asteroid no
\* such event has ever named is alive with the class and health it was spawned
\* with (the seeded Big one: health 5), whatever keys were pressed, whatever
\* other collisions, boundary corrections and fragmentations took place.
C11_OnlyHitsChange ==
    /\ [](\A a \in NeverHit :
            /\ a \in DOMAIN ast
            /\ ast[a] = obs.born[a]
            /\ ast[a].class = "Big" => ast[a].health = 5)
    /\ [][\A a \in DOMAIN ast :
            /\ (~CollisionsRun \/ HitsOn(a) = {}) =>
                   (a \in DOMAIN ast' => ast'[a] = ast[a])
            /\ a \in DOMAIN ast' => ast'[a].class = ast[a].class
            /\ a \notin DOMAIN ast' => a \notin NeverHit]_vars

\* An asteroid never hit, while another asteroid has been hit, a parent has
\* fragmented and shots have been fired.
C11_Witness ==
    \E a \in NeverHit, b \in DOMAIN ast :
        /\ obs.hits[b] > 0
        /\ ast[a] = obs.born[a]
        /\ \E p \in DOMAIN obs.frag : obs.frag[p] # <<>>
        /\ obs.shots > 0

\* An asteroid never hit that the wrapper has moved back from beyond the edge.
C11_Wrapped ==
    \E a \in NeverHit : a \in DOMAIN pos /\ pos[a] = Wrap(EdgePos) /\ ast[a] = obs.born[a]

(***************************************************************************)
(* C12: the lifetime of a projectile (under SpecFlight).                   *)
(***************************************************************************)
\* C12: a projectile no collision names is present in every frame from its spawn
\* until the frame times it has been ticked with add up to 5 seconds; the
\* PostUpdate of the first frame in which they do removes it, and nothing removes
\* it earlier.
C12_Lifetime ==
    /\ [](stage = "first" => \A l \in DOMAIN lasers : obs.flown[l] < 20)
    /\ [][\A l \in DOMAIN lasers :
            l \notin DOMAIN lasers' => stage = "post" /\ obs.flown[l] >= 20]_vars

\* A bolt one tick short of its removal and a bolt on its first tick, after a
\* bolt has come and gone.
C12_Witness ==
    /\ stage = "post"
    /\ "update_lifetimes" \in ran
    /\ \E l \in DOMAIN lasers : obs.flown[l] >= 20 /\ obs.flown[l] - delta < 20
                                 /\ obs.flown[l] # 20
    /\ \E l \in DOMAIN lasers : obs.flown[l] < 20
    /\ obs.shots > Cardinality(DOMAIN lasers)

(***************************************************************************)
(* C13 to C15: the boundary wrapper (under SpecWrap).                      *)
(***************************************************************************)
\* The wrapper step of a frame.
WrapperRun == "wrapper" \notin ran /\ "wrapper" \in ran'

\* The bodies the claims speak of whose place is followed.
Craft == {b \in DOMAIN pos : b \in ships \/ b \in DOMAIN ast}
Bolts == {b \in DOMAIN pos : b \in DOMAIN lasers}

\* C13: the wrapper leaves a ship or an asteroid with -640 <= x <= 640 and
\* -360 <= y <= 360 where it is, a body exactly on an edge included, and it never
\* moves a projectile, wherever that is.
C13_InBoundsUnchanged ==
    [][WrapperRun =>
         /\ \A b \in Craft :
               (/\ -640 <= pos[b][1] /\ pos[b][1] <= 640
                /\ -360 <= pos[b][2] /\ pos[b][2] <= 360) => pos'[b] = pos[b]
         /\ \A b \in Bolts : pos'[b] = pos[b]]_vars

\* After a wrapper step: the ship on the corner of two edges, an asteroid on the
\* opposite corner, a projectile outside the play field.
C13_Witness ==
    /\ stage = "update"
    /\ "wrapper" \in ran
    /\ pos[ShipId] = <<640, -360>>
    /\ \E a \in DOMAIN ast : a \in DOMAIN pos /\ pos[a] = <<-640, 360>>
    /\ \E l \in Bolts : pos[l][1] > 640 /\ pos[l][2] < -360

\* C14: one wrapper pass takes a coordinate c beyond the positive edge of its axis
\* to -c + 1 and a coordinate c beyond the negative edge to -c - 1, for every
\* out-of-bounds c.
C14_Reflect ==
    [][WrapperRun =>
         \A b \in Craft :
            /\ pos[b][1] > 640 => pos'[b][1] = -pos[b][1] + 1
            /\ pos[b][1] < -640 => pos'[b][1] = -pos[b][1] - 1
            /\ pos[b][2] > 360 => pos'[b][2] = -pos[b][2] + 1
            /\ pos[b][2] < -360 => pos'[b][2] = -pos[b][2] - 1]_vars

\* C15: once the wrapper has run, running it again on the same places changes
\* nothing.
C15_Idempotent ==
    (stage = "update" /\ "wrapper" \in ran) => \A b \in Craft : Wrap(pos[b]) = pos[b]

(***************************************************************************)
(* C16: what proto_input makes of the keys (under SpecInput).              *)
(***************************************************************************)
\* The proto_input step of a frame.
ProtoRun == "proto_input" \notin ran /\ "proto_input" \in ran'

\* C16: for every combination of pressed keys, an axis is 0 when both of its
\* directions are held or neither is, +1 or -1 when exactly one is; proto_input
\* sends at most one Move intent a frame, and sends it exactly when an axis is not
\* 0; it sends one Fire intent in every frame the fire key is down, none otherwise.
C16_InputInterpretation ==
    [][ProtoRun =>
         LET held(ks) == keys \cap ks # {}
             axis(neg, plus) ==
                 IF held(neg) = held(plus) THEN 0 ELSE IF held(plus) THEN 1 ELSE -1
             h == axis({"A", "Left"}, {"D", "Right"})
             v == axis({"S", "Down"}, {"W", "Up"})
             sent == SubSeq(inputEvents', Len(inputEvents) + 1, Len(inputEvents'))
             moves == {i \in DOMAIN sent : sent[i].kind = "Move"}
             fires == {i \in DOMAIN sent : sent[i].kind = "Fire"}
         IN  /\ Horizontal = h
             /\ Vertical = v
             /\ Cardinality(moves) <= 1
             /\ moves # {} <=> (h # 0 \/ v # 0)
             /\ \A i \in moves : sent[i].x = h /\ sent[i].y = v
             /\ Cardinality(fires) = IF "Space" \in keys THEN 1 ELSE 0
             /\ moves \cup fires = DOMAIN sent]_vars

\* Both horizontal keys, one vertical key and the fire key are down, and
\* proto_input has sent a Move along the vertical axis only and one Fire.
C16_Witness ==
    /\ "proto_input" \in ran
    /\ {"A", "Right", "Up", "Space"} \subseteq keys
    /\ keys \cap {"S", "Down"} = {}
    /\ inputEvents = <<MoveEvent(0, 1), FireEvent>>

(***************************************************************************)
(* C17: the order of the phases of a frame (under SpecSchedule).           *)
(***************************************************************************)
\* The step in which system sys of Update runs.
Runs(sys) == sys \notin ran /\ sys \in ran'

\* C17: in every frame the schedule can produce, proto_input runs before
\* update_weapons, which runs before laser_spawner; handle_collisions runs before
\* handle_destroyed_asteroids, which runs before wrapper; and the collision events
\* handle_collisions resolves were sent by the physics step of the same frame.
C17_PhaseOrder ==
    [][/\ Runs("update_weapons") => "proto_input" \in ran
       /\ Runs("laser_spawner") => "update_weapons" \in ran
       /\ Runs("handle_destroyed_asteroids") => "handle_collisions" \in ran
       /\ Runs("wrapper") => "handle_destroyed_asteroids" \in ran
       /\ (Runs("handle_collisions") /\ collisions # {}) => "physics" \in ran]_vars

\* The part of C17 the schedule does enforce: the .after chain of the input.
C17_InputChain ==
    [][/\ Runs("update_weapons") => "proto_input" \in ran
       /\ Runs("laser_spawner") => "update_weapons" \in ran]_vars

(***************************************************************************)
(* C18: aiming before the cursor is known (under SpecWeapon).              *)
(***************************************************************************)
\* No cursor position has been seen so far: none in this frame, and the Mouse
\* entity is still where setup spawned it (no cursor of these runs is there).
NoCursorYet == cursor = None /\ mouse = <<0, 0>>

\* C18: in every frame before the first one with a cursor position inside the
\* window, look_at_mouse leaves the ship's orientation as setup made it.
C18_KeepsInitialOrientation == NoCursorYet => shipRot = InitialRot

(***************************************************************************)
(* C19: the ship (under SpecWorld).                                        *)
(***************************************************************************)
\* C19: in every state after setup exactly one entity is a Ship, the one setup
\* spawned: no key, collision (Asteroid-Ship included), expired lifetime or
\* boundary correction adds a Ship or despawns it.
C19_OneShip ==
    /\ Cardinality(ships) = 1
    /\ ships = {ShipId}
    /\ ShipId \notin cmds.despawn

\* The end of a frame in which handle_collisions resolved a collision of the ship
\* with an asteroid and a bolt ran out of lifetime, after shots were fired.
C19_Witness ==
    /\ stage = "post"
    /\ obs.bumped
    /\ \E l \in DOMAIN lasers : l \in cmds.despawn /\ lasers[l].life >= LifetimeDuration
    /\ obs.shots > 0
    /\ ships = {ShipId}

(***************************************************************************)
(* C20: reproducible fragmentation (under SpecWorld).                      *)
(***************************************************************************)
\* The spawn events a fragmentation step sends when the generator yields draw.
FragmentsWith(draw) ==
    LET order == SetToSeq(Dead)
    IN  Flatten([i \in 1..Len(order) |-> Children(ast[order[i]].class, draw[order[i]])])

\* C20: what a fragmentation step sends is fixed by the state it starts from (the
\* program keeps no seed, so that state with the frame's input and collision
\* events is all two runs can have in common): whatever the generator would have
\* drawn, the children sent are the same, in the same order.
C20_Reproducible ==
    [][Runs("handle_destroyed_asteroids") =>
         \A draw \in [Dead -> RandVals] :
             asteroidEvents' = asteroidEvents \o FragmentsWith(draw)]_vars

(***************************************************************************)
(* C21: the damage one projectile does (under SpecWorld).                  *)
(***************************************************************************)
\* The asteroids that lose health in this handle_collisions step to a collision
\* event that pairs them with bolt l.
Victims(l) ==
    {a \in DOMAIN ast :
        /\ \E ev \in collisions : IsHit(ev) /\ HitLaser(ev) = l /\ HitAsteroid(ev) = a
        /\ ast'[a].health # ast[a].health}

\* C21: whatever collision events a frame reports, one projectile takes at most 1
\* health in all, also when it is reported in contact with several asteroids at
\* once while its despawn is still a queued command.
C21_OneDamagePerBolt ==
    [][CollisionsRun => \A l \in DOMAIN lasers : Cardinality(Victims(l)) <= 1]_vars

(***************************************************************************)
(* C22: an asteroid fragments once (under SpecWorld).                      *)
(***************************************************************************)
\* The most children an asteroid of a class may request.
MostChildren == [Big |-> 7, Medium |-> 3, Small |-> 4, Tiny |-> 0]

\* C22: in every order of handle_collisions, handle_destroyed_asteroids and
\* asteroid_spawner, the asteroids handle_destroyed_asteroids finds destroyed have
\* sent no spawn request before; their despawn is applied when the Update of that
\* frame ends, so that no later frame sees them; an asteroid never requests more
\* than 7 (Big), 3 (Medium), 4 (Small) children.
C22_FragmentsOnce ==
    /\ [](\A a \in DOMAIN obs.born : Len(obs.frag[a]) <= MostChildren[obs.born[a].class])
    /\ [][/\ Runs("handle_destroyed_asteroids") =>
              (\A a \in Dead : obs.frag[a] = <<>> /\ a \in cmds'.despawn)
          /\ (stage = "update" /\ stage' = "post") =>
              (\A b \in DOMAIN ast : obs.frag[b] # <<>> => b \notin DOMAIN ast')
          /\ (\A c \in DOMAIN obs.born :
                 obs.frag[c] # <<>> => obs.frag'[c] = obs.frag[c])]_vars

\* A Medium asteroid that took its last hit after handle_destroyed_asteroids had
\* run, lived one more frame, sent its three children and is gone.
C22_Witness ==
    \E a \in DOMAIN obs.born :
        /\ obs.born[a].class = "Medium"
        /\ a \notin DOMAIN ast
        /\ obs.overdue[a] = 1
        /\ Len(obs.frag[a]) = 3

(***************************************************************************)
(* C23: the cascade ends (under SpecCascade).                              *)
(***************************************************************************)
ClassRank == [Big |-> 3, Medium |-> 2, Small |-> 1, Tiny |-> 0]

\* Asteroids created or requested so far.
EverRequested ==
    Cardinality(DOMAIN obs.born) + Len(asteroidEvents) + Len(cmds.spawnAsteroids)

\* C23: every child is of a smaller class than its parent; from the one seeded
\* Big asteroid at most 1 + 7 + 21 + 84 = 113 asteroids are ever created; and in a
\* run in which every live asteroid keeps being hit there comes a state with no
\* asteroid alive or requested, and it stays so for ever.
C23_CascadeEnds ==
    /\ [](\A a \in DOMAIN obs.born : \A i \in DOMAIN obs.frag[a] :
             ClassRank[obs.frag[a][i]] < ClassRank[obs.born[a].class])
    /\ [](EverRequested <= 113)
    /\ <>[](DOMAIN ast = {} /\ asteroidEvents = <<>> /\ cmds.spawnAsteroids = <<>>)

\* All 113 asteroids have been created and destroyed.
C23_Witness ==
    /\ Cardinality(DOMAIN obs.born) = 113
    /\ DOMAIN ast = {}
    /\ \A a \in DOMAIN obs.born : obs.hits[a] >= obs.born[a].health

(***************************************************************************)
(* C24: spawn requests (under SpecWorld).                                  *)
(***************************************************************************)
\* How many members of sequence q satisfy class c.
OfClass(q, c) == Cardinality({i \in DOMAIN q : q[i].class = c})

RECURSIVE Requested(_, _)
\* How many children of class c the asteroids of S have requested.
Requested(S, c) ==
    IF S = {} THEN 0
    ELSE LET a == CHOOSE x \in S : TRUE
         IN  Cardinality({i \in DOMAIN obs.frag[a] : obs.frag[a][i] = c})
             + Requested(S \ {a}, c)

\* The class of the first asteroid of the run, which no fragmentation requested.
RootClass == IF 1 \in DOMAIN obs.born THEN obs.born[1].class ELSE "Big"

\* The classes of the asteroids spawned by this step, lowest id first.
NewClasses ==
    LET new == SetToSeq(DOMAIN ast' \ DOMAIN ast)
    IN  [i \in DOMAIN new |-> ast'[new[i]].class]

\* C24: no spawn request is lost or duplicated.  Of every class, the asteroids
\* created plus the requests still under way are the first asteroid plus the
\* children requested; asteroid_spawner and laser_spawner turn every event they
\* find into one spawn command and leave none behind; the end of Update spawns
\* one asteroid of the requested class per asteroid command and one bolt per
\* bolt command; no event is older than the frame after the one it was sent in,
\* and none leaves a buffer unread; in every order of the asteroid systems.
C24_NoRequestLost ==
    /\ [](\A c \in Classes :
             Cardinality({a \in DOMAIN obs.born : obs.born[a].class = c})
               + OfClass(asteroidEvents, c) + OfClass(cmds.spawnAsteroids, c)
             = (IF c = RootClass THEN 1 ELSE 0) + Requested(DOMAIN obs.frag, c))
    /\ [](\A i \in DOMAIN asteroidEvents : asteroidEvents[i].age <= 1)
    /\ [][/\ Runs("asteroid_spawner") =>
              /\ asteroidEvents' = <<>>
              /\ Len(cmds'.spawnAsteroids) = Len(cmds.spawnAsteroids) + Len(asteroidEvents)
              /\ \A c \in Classes :
                    OfClass(cmds'.spawnAsteroids, c)
                      = OfClass(cmds.spawnAsteroids, c) + OfClass(asteroidEvents, c)
          /\ Runs("laser_spawner") =>
              /\ laserEvents' = <<>>
              /\ Len(cmds'.spawnLasers) = Len(cmds.spawnLasers) + Len(laserEvents)
          /\ (stage = "update" /\ stage' = "post") =>
              /\ NewClasses = [i \in DOMAIN cmds.spawnAsteroids |->
                                  cmds.spawnAsteroids[i].class]
              /\ Cardinality(DOMAIN lasers' \ DOMAIN lasers) = Len(cmds.spawnLasers)
          /\ (stage = "first" /\ stage' = "pre") =>
              /\ Len(asteroidEvents') = Len(asteroidEvents)
              /\ Len(laserEvents') = Len(laserEvents)]_vars

\* asteroid_spawner has read the requests of a fragmentation of the frame before,
\* which were sent after it had run, and a bolt has been requested and spawned.
C24_Witness ==
    /\ stage = "update"
    /\ "asteroid_spawner" \in ran
    /\ "handle_destroyed_asteroids" \notin ran
    /\ Len(cmds.spawnAsteroids) >= 3
    /\ DOMAIN lasers # {}
====
